---------------------------- MODULE Spec2Model ----------------------------
(***************************************************************************)
(* A model of src/page_paths.py (class PagePaths): the path normaliser     *)
(* filter_path, the row indexer filter_batch, the pagination loop get and  *)
(* the CSV codec write / read.                                             *)
(*                                                                         *)
(* Python strings are modelled as sequences of one-character strings, so   *)
(* that startswith, find, slicing and concatenation are computed and not   *)
(* assumed.  Python's None is the value None below, which is no string of  *)
(* one-character elements.                                                 *)
(***************************************************************************)
EXTENDS Integers, Sequences, FiniteSets, TLC

VARIABLES
    \* --- filter_path applied to a raw path, and applied again to its result
    raw, once, twice, nstage,
    \* --- write / read of a CSV file
    data, flat, file, readback, cstage,
    \* --- the accumulators of filter_batch and the row of the last iteration
    paths, connections, row, outcome, accepted, nrows,
    \* --- the locals of get and the log of its fetches
    pc, from_index, more_pages, response, cursors, fetched, ingested, pending,
    \* --- the default-argument objects of filter_batch and the last call
    defaults, call, ret, ncalls

normVars  == <<raw, once, twice, nstage>>
codecVars == <<data, flat, file, readback, cstage>>
accVars   == <<paths, connections>>
rowVars   == <<row, outcome, accepted, nrows>>
getVars   == <<pc, from_index, more_pages, response, cursors, fetched, ingested,
              pending>>
callVars  == <<defaults, call, ret, ncalls>>
vars == <<normVars, codecVars, accVars, rowVars, getVars, callVars>>

(***************************************************************************)
(* Bounds of the model.                                                    *)
(***************************************************************************)
MaxPathLen == 5
MaxRows == 2
MaxTokenPages == 2
MaxCalls == 2
MaxFieldLen == 3

\* line 105: 'pageSize'
PageSize == 1000

(***************************************************************************)
(* Python str operations.                                                  *)
(***************************************************************************)
None == <<"None">>

\* s.startswith(prefix)
StartsWith(s, prefix) ==
    /\ Len(s) >= Len(prefix)
    /\ SubSeq(s, 1, Len(prefix)) = prefix

\* s.endswith(suffix)
EndsWith(s, suffix) ==
    /\ Len(s) >= Len(suffix)
    /\ SubSeq(s, Len(s) - Len(suffix) + 1, Len(s)) = suffix

\* s.find(ch): the 0-based index of the first occurrence of ch, or -1
Find(s, ch) ==
    IF \E i \in 1..Len(s) : s[i] = ch
    THEN (CHOOSE i \in 1..Len(s) :
              /\ s[i] = ch
              /\ \A j \in 1..(i - 1) : s[j] # ch) - 1
    ELSE -1

\* s[:n] for 0 <= n <= len(s)
Prefix(s, n) == SubSeq(s, 1, n)

(***************************************************************************)
(* PagePaths.filter_path                                                   *)
(***************************************************************************)
filter_path(path) ==
    IF StartsWith(path, <<"/", "h", "t", "t", "p">>)
           \/ StartsWith(path, <<"h", "t", "t", "p">>)
    THEN None
    ELSE LET query_start_index == Find(path, "?")
             p1 == IF query_start_index # -1
                   THEN Prefix(path, query_start_index)
                   ELSE path
             p2 == IF ~StartsWith(p1, <<"/">>) THEN p1 \o <<"/">> ELSE p1
             p3 == IF ~EndsWith(p2, <<"/">>) THEN p2 \o <<"/">> ELSE p2
         IN  p3

(***************************************************************************)
(* Raw paths: every string of at most MaxPathLen characters over PathChars.*)
(***************************************************************************)
PathChars == {"/", "?", "h", "t", "p", "a"}

StringsUpTo(chars, n) == UNION {[1..k -> chars] : k \in 0..n}

RawPaths == StringsUpTo(PathChars, MaxPathLen)

(***************************************************************************)
(* Python int(s) on a str: an optional sign and at least one decimal       *)
(* digit; anything else raises ValueError.                                 *)
(***************************************************************************)
Digits == <<"0", "1", "2", "3", "4", "5", "6", "7", "8", "9">>

IsDigit(ch) == \E d \in 1..10 : Digits[d] = ch

DigitVal(ch) == (CHOOSE d \in 1..10 : Digits[d] = ch) - 1

\* the value of a string of decimal digits
RECURSIVE DecimalVal(_)
DecimalVal(s) ==
    IF s = <<>> THEN 0
    ELSE 10 * DecimalVal(SubSeq(s, 1, Len(s) - 1)) + DigitVal(s[Len(s)])

AllDigits(s) == Len(s) > 0 /\ \A i \in 1..Len(s) : IsDigit(s[i])

\* whether int(s) returns
IntParses(s) ==
    \/ AllDigits(s)
    \/ Len(s) > 1 /\ s[1] \in {"-", "+"} /\ AllDigits(Tail(s))

\* int(s), for a string on which it returns
IntOf(s) ==
    IF s[1] = "-" THEN 0 - DecimalVal(Tail(s))
    ELSE IF s[1] = "+" THEN DecimalVal(Tail(s))
    ELSE DecimalVal(s)

(***************************************************************************)
(* A report row: row['dimensions'] is a list of strings, row['metrics'] a  *)
(* list of groups, each with a list 'values' of strings.                   *)
(***************************************************************************)
NoRow == [dimensions |-> <<>>, metrics |-> <<>>]

\* x in lst
In(x, lst) == \E i \in 1..Len(lst) : lst[i] = x

\* lst.index(x): the 0-based position of the first occurrence of x
Index(lst, x) ==
    (CHOOSE i \in 1..Len(lst) :
         /\ lst[i] = x
         /\ \A j \in 1..(i - 1) : lst[j] # x) - 1

\* whether int(metrics[0]['values'][0]) returns: IndexError when a list is
\* empty, ValueError when the string is no integer
CountReturns(metrics) ==
    /\ Len(metrics) > 0
    /\ Len(metrics[1].values) > 0
    /\ IntParses(metrics[1].values[1])

(***************************************************************************)
(* PagePaths.filter_batch, the body of its inner loop for one row r with   *)
(* the lists p (paths) and c (connections).  The lists are mutated in      *)
(* place: when int(...) raises on line 64, the appends of lines 55 and 61  *)
(* have already happened.                                                  *)
(***************************************************************************)

\* A variant of Skips that lets a self-loop row through.
Skips_NoSelfLoopCheck(prev, current) ==
    prev = None \/ current = None

\* line 49: the row is passed over
Skips(prev, current) ==
    prev = None \/ current = None \/ prev = current

\* A variant of LookupOrAppend that never reuses an index.
LookupOrAppend_NoReuse(lst, x) ==
    [paths |-> Append(lst, x), index |-> Len(lst)]

\* lines 52-56 and 58-62: the index of x in lst, x appended when it is new
LookupOrAppend(lst, x) ==
    IF In(x, lst)
    THEN [paths |-> lst, index |-> Index(lst, x)]
    ELSE [paths |-> Append(lst, x), index |-> Len(Append(lst, x)) - 1]

\* A variant of AppendConnection that sums the counts of equal endpoints.
AppendConnection_Merging(c, conn) ==
    IF \E i \in 1..Len(c) : c[i][1] = conn[1] /\ c[i][2] = conn[2]
    THEN LET i == CHOOSE k \in 1..Len(c) :
                      c[k][1] = conn[1] /\ c[k][2] = conn[2]
         IN  [c EXCEPT ![i] = <<c[i][1], c[i][2], c[i][3] + conn[3]>>]
    ELSE Append(c, conn)

\* line 64: connections.append([prev_index, current_index, count])
AppendConnection(c, conn) == Append(c, conn)

FilterRow(r, p, c) ==
    LET metrics == r.metrics
        dimensions == r.dimensions
    IN  IF Len(dimensions) < 3
        THEN [paths |-> p, connections |-> c, outcome |-> "skipped"]
        ELSE
        LET prev == filter_path(dimensions[2])
            current == filter_path(dimensions[3])
        IN  IF Skips(prev, current)
            THEN [paths |-> p, connections |-> c, outcome |-> "skipped"]
            ELSE
            LET l1 == LookupOrAppend(p, prev)
                l2 == LookupOrAppend(l1.paths, current)
            IN  IF CountReturns(metrics)
                THEN [paths |-> l2.paths,
                      connections |->
                          AppendConnection(c,
                              <<l1.index, l2.index,
                                IntOf(metrics[1].values[1])>>),
                      outcome |-> "appended"]
                ELSE [paths |-> l2.paths, connections |-> c,
                      outcome |-> "raised"]

(***************************************************************************)
(* The rows a response may carry.                                          *)
(***************************************************************************)
Date == <<"d">>

IngestRaw ==
    { <<"/", "a">>, <<"/", "a", "?", "t">>, <<"/", "b">>, <<"/", "c", "/">>,
      <<"h", "t", "t", "p">>, <<"/", "h", "t", "t", "p">> }

MetricChoices ==
    { << [values |-> << <<"5">> >>] >>,
      << [values |-> << <<"2">> >>] >>,
      << [values |-> << <<"1", "2">> >>] >>,
      << [values |-> << <<"x">> >>] >>,
      << >> }

Rows ==
    { [dimensions |-> <<Date, a>>, metrics |-> m] :
          a \in {<<"/", "a">>}, m \in {<< >>, << [values |-> << <<"5">> >>] >>} }
    \cup
    { [dimensions |-> <<Date, a, b>>, metrics |-> m] :
          a \in IngestRaw, b \in IngestRaw, m \in MetricChoices }

(***************************************************************************)
(* PagePaths.filter_batch on a whole response: the rows of every report,   *)
(* in order, until one raises.  A report is a record with the field rows   *)
(* (report['data']['rows'], empty when absent) and, when the source sent   *)
(* one, the field nextPageToken.                                           *)
(***************************************************************************)
RECURSIVE AllRows(_)
AllRows(reports) ==
    IF reports = <<>> THEN <<>>
    ELSE Head(reports).rows \o AllRows(Tail(reports))

\* F(v), with v evaluated once
Bind(v, F(_)) == CHOOSE out \in {F(x) : x \in {v}} : TRUE

RECURSIVE FilterRows(_, _, _)
FilterRows(rows, p, c) ==
    IF rows = <<>>
    THEN [paths |-> p, connections |-> c, raised |-> FALSE]
    ELSE Bind(FilterRow(Head(rows), p, c),
              LAMBDA res :
                  IF res.outcome = "raised"
                  THEN [paths |-> res.paths,
                        connections |-> res.connections, raised |-> TRUE]
                  ELSE FilterRows(Tail(rows), res.paths, res.connections))

filter_batch(resp, p, c) == FilterRows(AllRows(resp.reports), p, c)

(***************************************************************************)
(* PagePaths.get_batch and the cursor handling of PagePaths.get.           *)
(* from_index is the int 0 at first and a token of the source afterwards;  *)
(* a Python value carries its type.                                        *)
(***************************************************************************)
PyInt(n) == [type |-> "int", val |-> n]
PyStr(s) == [type |-> "str", val |-> s]

\* the decimal digits of a natural number
RECURSIVE DecimalStr(_)
DecimalStr(n) ==
    IF n < 10 THEN <<Digits[n + 1]>>
    ELSE DecimalStr(n \div 10) \o <<Digits[(n % 10) + 1]>>

\* line 104: str(from_index)
Str(x) == IF x.type = "int" THEN DecimalStr(x.val) ELSE x.val

\* line 129: len(reports) and 'nextPageToken' in reports[0]
MorePages(reports) ==
    Len(reports) # 0 /\ "nextPageToken" \in DOMAIN reports[1]

\* A variant of NextIndex that advances by the page size instead.
NextIndex_PageSize(reports) == PyInt(PageSize)

\* line 131: reports[0]['nextPageToken']
NextIndex(reports) == PyStr(reports[1].nextPageToken)

(***************************************************************************)
(* The responses of the report source.                                     *)
(***************************************************************************)
RowAB  == [dimensions |-> <<Date, <<"/", "a">>, <<"/", "b">> >>,
           metrics |-> << [values |-> << <<"5">> >>] >>]
RowAC  == [dimensions |-> <<Date, <<"/", "a", "?", "t">>, <<"/", "c", "/">> >>,
           metrics |-> << [values |-> << <<"2">> >>] >>]
RowBad == [dimensions |-> <<Date, <<"/", "b">>, <<"/", "c", "/">> >>,
           metrics |-> << >>]
RowShort == [dimensions |-> <<Date, <<"/", "a">> >>,
             metrics |-> << [values |-> << <<"5">> >>] >>]

PageRows ==
    { << >>, <<RowAB>>, <<RowShort, RowAC>>, <<RowAB, RowBad, RowAC>> }

ReportsWithToken ==
    { << [rows |-> rs, nextPageToken |-> <<"t", "k">>] >> : rs \in PageRows }
    \cup
    { << [rows |-> <<RowAC>>, nextPageToken |-> <<"1", "0", "0", "0">>] >> }
    \cup
    { << [rows |-> <<RowAB>>, nextPageToken |-> <<"t", "k">>],
         [rows |-> <<RowAC>>] >> }

ReportsWithoutToken ==
    { << >> }
    \cup
    { << [rows |-> rs] >> : rs \in PageRows }
    \cup
    { << [rows |-> <<RowAB>>],
         [rows |-> <<RowAC>>, nextPageToken |-> <<"t", "k">>] >> }

Responses ==
    { [reports |-> rp] : rp \in ReportsWithToken \cup ReportsWithoutToken }

NoResponse == [reports |-> << >>]

(***************************************************************************)
(* PagePaths.get as a function of what the source answers: source is the   *)
(* sequence of its responses to the successive fetches.                    *)
(***************************************************************************)
RECURSIVE GetLoop(_, _, _)
GetLoop(source, p, c) ==
    Bind(filter_batch(Head(source), p, c),
         LAMBDA res :
             IF res.raised \/ ~MorePages(Head(source).reports)
             THEN res
             ELSE GetLoop(Tail(source), res.paths, res.connections))

get(source) == GetLoop(source, <<>>, <<>>)

\* what the source may answer to one run of get: a response without a
\* token, after at most one response with one
Sources ==
    { <<[reports |-> a]>> : a \in ReportsWithoutToken }
    \cup
    { <<[reports |-> a], [reports |-> b]>> :
          a \in { << [rows |-> <<RowShort, RowAC>>,
                      nextPageToken |-> <<"t", "k">>] >> },
          b \in ReportsWithoutToken }

(***************************************************************************)
(* A call and what it returned.  alias tells whether the lists returned    *)
(* are the default-argument objects of filter_batch (line 31), which live  *)
(* as long as the function does.                                           *)
(***************************************************************************)
NoCall == [kind |-> "none"]

NoReturn == [paths |-> <<>>, connections |-> <<>>, raised |-> FALSE,
             alias |-> "fresh"]

\* the lists a caller may build and pass
CallerLists ==
    { [paths |-> <<>>, connections |-> <<>>],
      [paths |-> << <<"/", "c", "/">>, <<"/", "a", "/">> >>,
       connections |-> << <<0, 1, 7>> >>] }

(***************************************************************************)
(* PagePaths.write: csv.writer with delimiter ',', quotechar '"',          *)
(* QUOTE_MINIMAL, the default doublequote and the default line terminator  *)
(* '\r\n'.  An element of data is a list of fields or a scalar; a field    *)
(* is a str or an int.                                                     *)
(***************************************************************************)
PyList(items) == [type |-> "list", items |-> items]
PyFloat(s) == [type |-> "float", val |-> s]

CsvSuffix == <<".", "c", "s", "v">>

\* lines 171-172 and 188-189
CsvName(file_name) ==
    IF ~EndsWith(file_name, CsvSuffix) THEN file_name \o CsvSuffix
    ELSE file_name

\* str(x) of a field
FieldText(x) ==
    IF x.type = "int"
    THEN (IF x.val < 0 THEN <<"-">> \o DecimalStr(0 - x.val)
                       ELSE DecimalStr(x.val))
    ELSE x.val

\* the characters that make QUOTE_MINIMAL quote a field
NeedsQuotes(s) ==
    \E i \in 1..Len(s) : s[i] \in {",", "\"", "\r", "\n"}

\* every quotechar of s doubled
RECURSIVE DoubleQuotes(_)
DoubleQuotes(s) ==
    IF s = <<>> THEN <<>>
    ELSE (IF Head(s) = "\"" THEN <<"\"", "\"">> ELSE <<Head(s)>>)
         \o DoubleQuotes(Tail(s))

\* one field as the writer emits it; a lone empty field is written quoted
WriteField(s, alone) ==
    IF NeedsQuotes(s) \/ (alone /\ s = <<>>)
    THEN <<"\"">> \o DoubleQuotes(s) \o <<"\"">>
    ELSE s

RECURSIVE JoinFields(_, _)
JoinFields(fields, alone) ==
    IF fields = <<>> THEN <<>>
    ELSE WriteField(FieldText(Head(fields)), alone)
         \o (IF Len(fields) > 1 THEN <<",">> ELSE <<>>)
         \o JoinFields(Tail(fields), alone)

\* writer.writerow(fields)
WriteRow(fields) ==
    JoinFields(fields, Len(fields) = 1) \o <<"\r", "\n">>

\* lines 176-177
RECURSIVE WriteRows(_)
WriteRows(d) ==
    IF d = <<>> THEN <<>>
    ELSE WriteRow(IF Head(d).type = "list" THEN Head(d).items
                                           ELSE <<Head(d)>>)
         \o WriteRows(Tail(d))

(***************************************************************************)
(* PagePaths.read: csv.reader with delimiter ',' and quotechar '"' over    *)
(* the lines of the file, and _maybe_to_number on every field.             *)
(***************************************************************************)
\* the lines of the text, without their terminators
RECURSIVE SplitLines(_, _)
SplitLines(text, line) ==
    IF text = <<>> THEN (IF line = <<>> THEN <<>> ELSE <<line>>)
    ELSE IF Head(text) = "\n" THEN <<line>> \o SplitLines(Tail(text), <<>>)
    ELSE IF Head(text) = "\r" THEN SplitLines(Tail(text), line)
    ELSE SplitLines(Tail(text), Append(line, Head(text)))

\* the reader's automaton over one line: st is its state, fields the fields
\* saved so far and cur the field being read
RECURSIVE ParseLine(_, _, _, _)
ParseLine(line, st, fields, cur) ==
    IF line = <<>>
    THEN (IF st = "START_RECORD" THEN fields ELSE Append(fields, cur))
    ELSE LET ch == Head(line)
             rest == Tail(line)
         IN  CASE st \in {"START_RECORD", "START_FIELD"} ->
                  (IF ch = "\"" THEN ParseLine(rest, "IN_QUOTED_FIELD", fields, <<>>)
                   ELSE IF ch = "," THEN ParseLine(rest, "START_FIELD", Append(fields, <<>>), <<>>)
                   ELSE ParseLine(rest, "IN_FIELD", fields, <<ch>>))
               [] st = "IN_FIELD" ->
                  (IF ch = "," THEN ParseLine(rest, "START_FIELD", Append(fields, cur), <<>>)
                   ELSE ParseLine(rest, "IN_FIELD", fields, Append(cur, ch)))
               [] st = "IN_QUOTED_FIELD" ->
                  (IF ch = "\"" THEN ParseLine(rest, "QUOTE_IN_QUOTED_FIELD", fields, cur)
                   ELSE ParseLine(rest, "IN_QUOTED_FIELD", fields, Append(cur, ch)))
               [] st = "QUOTE_IN_QUOTED_FIELD" ->
                  (IF ch = "\"" THEN ParseLine(rest, "IN_QUOTED_FIELD", fields, Append(cur, ch))
                   ELSE IF ch = "," THEN ParseLine(rest, "START_FIELD", Append(fields, cur), <<>>)
                   ELSE ParseLine(rest, "IN_FIELD", fields, Append(cur, ch)))

\* the rows the reader yields
ReaderRows(text) ==
    LET lines == SplitLines(text, <<>>)
    IN  [i \in 1..Len(lines) |-> ParseLine(lines[i], "START_RECORD", <<>>, <<>>)]

\* x.isdigit()
isdigit(x) == Len(x) > 0 /\ \A i \in 1..Len(x) : IsDigit(x[i])

\* line 203
maybe_to_number(x) ==
    IF isdigit(x)
    THEN (IF \E i \in 1..Len(x) : x[i] = "." THEN PyFloat(x)
                                              ELSE PyInt(DecimalVal(x)))
    ELSE PyStr(x)

\* lines 191-200; row[0] raises IndexError on a row without fields
ReadRaises(text, is_flat) ==
    is_flat /\ \E i \in 1..Len(ReaderRows(text)) : ReaderRows(text)[i] = <<>>

ReadData(text, is_flat) ==
    LET rows == ReaderRows(text)
    IN  IF is_flat
        THEN [i \in 1..Len(rows) |-> maybe_to_number(rows[i][1])]
        ELSE [i \in 1..Len(rows) |->
                  PyList([j \in 1..Len(rows[i]) |-> maybe_to_number(rows[i][j])])]

(***************************************************************************)
(* The data written: fields are the strings of at most MaxFieldLen         *)
(* characters over FieldChars and a few ints.                              *)
(***************************************************************************)
FieldChars == {"5", ".", "-", ",", "\""}

StrFields == {PyStr(t) : t \in StringsUpTo(FieldChars, MaxFieldLen)}

ShortFields == {PyStr(t) : t \in StringsUpTo(FieldChars, 1)}

IntFields == {PyInt(0), PyInt(25), PyInt(-3)}

Fields == StrFields \cup IntFields

\* lists of scalars, for the flat mode
FlatData ==
    {<< >>} \cup {<<a>> : a \in Fields}
            \cup {<<a, b>> : a \in Fields, b \in ShortFields \cup IntFields}

\* lists of rows
RowData ==
    {<<PyList(<< >>)>>}
    \cup {<<PyList(<<a>>)>> : a \in Fields}
    \cup {<<PyList(<<a, b>>)>> : a \in Fields, b \in ShortFields \cup IntFields}
    \cup {<<PyList(<<a, b>>)>> : a \in ShortFields, b \in Fields}
    \cup {<<PyList(<<a>>), PyList(<<b, c>>)>> :
              a \in ShortFields, b \in ShortFields, c \in IntFields}

FileNames == { <<"g">>, <<"g", ".", "c", "s", "v">> }

NoFile == [name |-> <<>>, text |-> <<>>]

(***************************************************************************)
(* Idle values of the variables a specification does not use.              *)
(***************************************************************************)
NormIdle ==
    /\ raw = <<>>
    /\ once = <<>>
    /\ twice = <<>>
    /\ nstage = "idle"

CodecIdle ==
    /\ data = <<>>
    /\ flat = FALSE
    /\ file = NoFile
    /\ readback = <<>>
    /\ cstage = "idle"

AccIdle ==
    /\ paths = <<>>
    /\ connections = <<>>

RowIdle ==
    /\ row = NoRow
    /\ outcome = "idle"
    /\ accepted = 0
    /\ nrows = 0

GetIdle ==
    /\ pc = "idle"
    /\ from_index = PyInt(0)
    /\ more_pages = FALSE
    /\ response = NoResponse
    /\ cursors = <<>>
    /\ fetched = <<>>
    /\ ingested = <<>>
    /\ pending = <<>>

CallIdle ==
    /\ defaults = [paths |-> <<>>, connections |-> <<>>]
    /\ call = NoCall
    /\ ret = NoReturn
    /\ ncalls = 0

(***************************************************************************)
(* The normaliser: filter_path on a raw path, then on its own result.      *)
(***************************************************************************)
InitNorm ==
    /\ raw \in RawPaths
    /\ once = <<>>
    /\ twice = <<>>
    /\ nstage = "raw"
    /\ CodecIdle /\ AccIdle /\ RowIdle /\ GetIdle /\ CallIdle

Normalise ==
    /\ nstage = "raw"
    /\ once' = filter_path(raw)
    /\ nstage' = "once"
    /\ UNCHANGED <<raw, twice, codecVars, accVars, rowVars, getVars, callVars>>

\* filter_path(None) raises AttributeError: only a path is normalised again
Renormalise ==
    /\ nstage = "once"
    /\ once # None
    /\ twice' = filter_path(once)
    /\ nstage' = "twice"
    /\ UNCHANGED <<raw, once, codecVars, accVars, rowVars, getVars, callVars>>

NextNorm == Normalise \/ Renormalise

SpecNorm == InitNorm /\ [][NextNorm]_vars

(***************************************************************************)
(* The codec: write(data, file_name), then read(file_name, is_flat).       *)
(***************************************************************************)
InitCodec ==
    /\ data \in FlatData \cup RowData
    /\ flat = FALSE
    /\ file = NoFile
    /\ readback = <<>>
    /\ cstage = "data"
    /\ NormIdle /\ AccIdle /\ RowIdle /\ GetIdle /\ CallIdle

Write(file_name) ==
    /\ cstage = "data"
    /\ file' = [name |-> CsvName(file_name), text |-> WriteRows(data)]
    /\ cstage' = "written"
    /\ UNCHANGED <<data, flat, readback>>
    /\ UNCHANGED <<normVars, accVars, rowVars, getVars, callVars>>

\* open() finds the file only under the name it was written under
Read(file_name, is_flat) ==
    /\ cstage = "written"
    /\ CsvName(file_name) = file.name
    /\ flat' = is_flat
    /\ IF ReadRaises(file.text, is_flat)
       THEN cstage' = "raised" /\ UNCHANGED readback
       ELSE cstage' = "read" /\ readback' = ReadData(file.text, is_flat)
    /\ UNCHANGED <<data, file>>
    /\ UNCHANGED <<normVars, accVars, rowVars, getVars, callVars>>

NextCodec ==
    \/ \E n \in FileNames : Write(n)
    \/ \E n \in FileNames, f \in BOOLEAN : Read(n, f)

SpecCodec == InitCodec /\ [][NextCodec]_vars

\* the coercion the round trip is to apply to the text of a field
Coerced(s) ==
    IF Len(s) > 0 /\ \A i \in 1..Len(s) : IsDigit(s[i])
    THEN PyInt(DecimalVal(s))
    ELSE IF /\ \A i \in 1..Len(s) : IsDigit(s[i]) \/ s[i] = "."
            /\ Cardinality({i \in 1..Len(s) : s[i] = "."}) = 1
            /\ Len(s) > 1
         THEN PyFloat(s)
         ELSE PyStr(s)

\* data is a list of rows, or a list of scalars
IsRowData(d) == \A i \in 1..Len(d) : d[i].type = "list"
IsFlatData(d) == \A i \in 1..Len(d) : d[i].type # "list"

\* C3: rows written with write and read back with read in the matching
\* flat mode are the original rows with every field coerced: only decimal
\* digits give an int, digits with a "." give a float, anything else (a
\* "-" prefixed number too) stays a string.
C3_RoundTrip ==
    /\ (cstage = "read" /\ IsFlatData(data) /\ flat) =>
           readback = [i \in 1..Len(data) |-> Coerced(FieldText(data[i]))]
    /\ (cstage = "read" /\ IsRowData(data) /\ ~flat) =>
           readback = [i \in 1..Len(data) |->
                          PyList([j \in 1..Len(data[i].items) |->
                                      Coerced(FieldText(data[i].items[j]))])]
    /\ (cstage = "raised") => ~(IsFlatData(data) /\ flat)

(***************************************************************************)
(* The indexer: the iterations of filter_batch's inner loop over the rows  *)
(* of the responses it is given, on lists that start empty.  A row is any  *)
(* row of any response.  After an iteration raised, the call has ended and *)
(* the caller still holds the lists; a later call may pass them again.     *)
(***************************************************************************)
InitIngest ==
    /\ paths = <<>>
    /\ connections = <<>>
    /\ row = NoRow
    /\ outcome = "start"
    /\ accepted = 0
    /\ nrows = 0
    /\ NormIdle /\ CodecIdle /\ GetIdle /\ CallIdle

IngestRow(r) ==
    /\ nrows < MaxRows
    /\ LET res == FilterRow(r, paths, connections)
       IN  /\ paths' = res.paths
           /\ connections' = res.connections
           /\ outcome' = res.outcome
           /\ accepted' = IF res.outcome = "appended" THEN accepted + 1
                                                      ELSE accepted
    /\ row' = r
    /\ nrows' = nrows + 1
    /\ UNCHANGED <<normVars, codecVars, getVars, callVars>>

NextIngest == \E r \in Rows : IngestRow(r)

SpecIngest == InitIngest /\ [][NextIngest]_vars

(***************************************************************************)
(* PagePaths.get.  The source answers a fetch with any response; it sends  *)
(* at most MaxTokenPages responses whose first report carries a token.     *)
(* fetched logs the responses, cursors the pageToken of each request, and  *)
(* ingested the responses passed to filter_batch on line 135.              *)
(***************************************************************************)
InitGet ==
    /\ pc = "start"
    /\ from_index = PyInt(0)
    /\ more_pages = FALSE
    /\ response = NoResponse
    /\ cursors = <<>>
    /\ fetched = <<>>
    /\ ingested = <<>>
    /\ pending = <<>>
    /\ paths = <<>>
    /\ connections = <<>>
    /\ NormIdle /\ CodecIdle /\ RowIdle /\ CallIdle

\* lines 121-125
GetStart ==
    /\ pc = "start"
    /\ paths' = <<>>
    /\ connections' = <<>>
    /\ more_pages' = TRUE
    /\ from_index' = PyInt(0)
    /\ pc' = "loop"
    /\ UNCHANGED <<response, cursors, fetched, ingested, pending>>
    /\ UNCHANGED <<normVars, codecVars, rowVars, callVars>>

TokenPages(log) ==
    Cardinality({k \in 1..Len(log) : MorePages(log[k].reports)})

\* lines 126-133: a fetch and the cursor it leaves
Fetch(resp) ==
    /\ pc = "loop"
    /\ more_pages
    /\ MorePages(resp.reports) => TokenPages(fetched) < MaxTokenPages
    /\ cursors' = Append(cursors, Str(from_index))
    /\ fetched' = Append(fetched, resp)
    /\ response' = resp
    /\ LET reports == resp.reports
       IN  IF MorePages(reports)
           THEN /\ more_pages' = TRUE
                /\ from_index' = NextIndex(reports)
           ELSE /\ more_pages' = FALSE
                /\ UNCHANGED from_index
    /\ pc' = "ingest"
    /\ UNCHANGED <<paths, connections, ingested, pending>>
    /\ UNCHANGED <<normVars, codecVars, rowVars, callVars>>

\* A variant of CallFilterBatch that passes on only pages that have a
\* successor.
CallFilterBatch_SkipsLastPage ==
    /\ pc = "ingest"
    /\ pending' = IF more_pages THEN AllRows(response.reports) ELSE <<>>
    /\ ingested' = Append(ingested, response)
    /\ pc' = "rows"
    /\ UNCHANGED <<from_index, more_pages, response, cursors, fetched,
                   paths, connections>>
    /\ UNCHANGED <<normVars, codecVars, rowVars, callVars>>

\* line 135, the call, and lines 40-41: the rows filter_batch iterates over
CallFilterBatch ==
    /\ pc = "ingest"
    /\ pending' = AllRows(response.reports)
    /\ ingested' = Append(ingested, response)
    /\ pc' = "rows"
    /\ UNCHANGED <<from_index, more_pages, response, cursors, fetched,
                   paths, connections>>
    /\ UNCHANGED <<normVars, codecVars, rowVars, callVars>>

\* lines 42-64: one iteration; an exception of line 64 leaves get
IngestStep ==
    /\ pc = "rows"
    /\ pending # <<>>
    /\ LET res == FilterRow(Head(pending), paths, connections)
       IN  /\ paths' = res.paths
           /\ connections' = res.connections
           /\ pc' = IF res.outcome = "raised" THEN "failed" ELSE "rows"
    /\ pending' = Tail(pending)
    /\ UNCHANGED <<from_index, more_pages, response, cursors, fetched,
                   ingested>>
    /\ UNCHANGED <<normVars, codecVars, rowVars, callVars>>

\* line 66 and the assignment of line 135
FilterBatchReturn ==
    /\ pc = "rows"
    /\ pending = <<>>
    /\ pc' = "loop"
    /\ UNCHANGED <<from_index, more_pages, response, cursors, fetched,
                   ingested, pending, paths, connections>>
    /\ UNCHANGED <<normVars, codecVars, rowVars, callVars>>

\* lines 126 and 137: the loop ends and get returns paths, connections
Return ==
    /\ pc = "loop"
    /\ ~more_pages
    /\ pc' = "done"
    /\ UNCHANGED <<from_index, more_pages, response, cursors, fetched,
                   ingested, pending, paths, connections>>
    /\ UNCHANGED <<normVars, codecVars, rowVars, callVars>>

NextGet ==
    \/ GetStart
    \/ \E resp \in Responses : Fetch(resp)
    \/ CallFilterBatch
    \/ IngestStep
    \/ FilterBatchReturn
    \/ Return

SpecGet == InitGet /\ [][NextGet]_vars

\* get is straight-line sequential code: a step that can be taken is taken
SpecGetFair == SpecGet /\ WF_vars(NextGet)

(***************************************************************************)
(* Successive calls of filter_batch and get on one PagePaths object.       *)
(***************************************************************************)
InitCalls ==
    /\ defaults = [paths |-> <<>>, connections |-> <<>>]
    /\ call = NoCall
    /\ ret = NoReturn
    /\ ncalls = 0
    /\ NormIdle /\ CodecIdle /\ AccIdle /\ RowIdle /\ GetIdle

\* filter_batch(response): paths and connections are the default objects,
\* which the call mutates in place and returns
CallDefault(resp) ==
    /\ ncalls < MaxCalls
    /\ LET res == filter_batch(resp, defaults.paths, defaults.connections)
       IN  /\ defaults' = [paths |-> res.paths,
                           connections |-> res.connections]
           /\ ret' = [paths |-> res.paths, connections |-> res.connections,
                      raised |-> res.raised, alias |-> "default"]
    /\ call' = [kind |-> "default", response |-> resp]
    /\ ncalls' = ncalls + 1
    /\ UNCHANGED <<normVars, codecVars, accVars, rowVars, getVars>>

\* filter_batch(response, paths, connections) with lists the caller built
CallExplicit(resp, lists) ==
    /\ ncalls < MaxCalls
    /\ LET res == filter_batch(resp, lists.paths, lists.connections)
       IN  ret' = [paths |-> res.paths, connections |-> res.connections,
                   raised |-> res.raised, alias |-> "fresh"]
    /\ call' = [kind |-> "explicit", response |-> resp,
                paths |-> lists.paths, connections |-> lists.connections]
    /\ ncalls' = ncalls + 1
    /\ UNCHANGED defaults
    /\ UNCHANGED <<normVars, codecVars, accVars, rowVars, getVars>>

\* filter_batch(response, paths, connections) with the lists the previous
\* call returned; when those are the default objects, they are mutated
CallChained(resp) ==
    /\ ncalls < MaxCalls
    /\ call.kind # "none"
    /\ LET res == filter_batch(resp, ret.paths, ret.connections)
       IN  /\ ret' = [paths |-> res.paths, connections |-> res.connections,
                      raised |-> res.raised, alias |-> ret.alias]
           /\ defaults' = IF ret.alias = "default"
                          THEN [paths |-> res.paths,
                                connections |-> res.connections]
                          ELSE defaults
    /\ call' = [kind |-> "explicit", response |-> resp,
                paths |-> ret.paths, connections |-> ret.connections]
    /\ ncalls' = ncalls + 1
    /\ UNCHANGED <<normVars, codecVars, accVars, rowVars, getVars>>

\* get(): its lists are made on lines 121-122
CallGet(source) ==
    /\ ncalls < MaxCalls
    /\ LET res == get(source)
       IN  ret' = [paths |-> res.paths, connections |-> res.connections,
                   raised |-> res.raised, alias |-> "fresh"]
    /\ call' = [kind |-> "get", source |-> source]
    /\ ncalls' = ncalls + 1
    /\ UNCHANGED defaults
    /\ UNCHANGED <<normVars, codecVars, accVars, rowVars, getVars>>

NextCalls ==
    \/ \E resp \in Responses : CallDefault(resp)
    \/ \E resp \in Responses, lists \in CallerLists : CallExplicit(resp, lists)
    \/ \E resp \in Responses : CallChained(resp)
    \/ \E source \in Sources : CallGet(source)

SpecCalls == InitCalls /\ [][NextCalls]_vars

\* what a call returns or leaves behind, without the identity of the lists
Outcome(res) ==
    [paths |-> res.paths, connections |-> res.connections,
     raised |-> res.raised]

\* C4: what a call of filter_batch or get returns depends only on the
\* lists passed to it and the rows it ingests; a call of filter_batch
\* without paths and connections starts from empty lists.
C4_RunsIndependent ==
    /\ call.kind = "default" =>
           Outcome(ret) = Outcome(filter_batch(call.response, <<>>, <<>>))
    /\ call.kind = "explicit" =>
           Outcome(ret) = Outcome(filter_batch(call.response, call.paths,
                                               call.connections))
    /\ call.kind = "get" =>
           Outcome(ret) = Outcome(get(call.source))

(***************************************************************************)
(* The words of the claims about get, stated on the log of its fetches.    *)
(***************************************************************************)
\* the first report of a response carries a continuation cursor
CarriesToken(resp) ==
    /\ Len(resp.reports) >= 1
    /\ "nextPageToken" \in DOMAIN resp.reports[1]

\* the number of leading responses of log that carry a token
RECURSIVE LeadingTokens(_)
LeadingTokens(log) ==
    IF log = <<>> \/ ~CarriesToken(Head(log)) THEN 0
    ELSE 1 + LeadingTokens(Tail(log))

\* C6: the first fetch uses the cursor "0"; every later fetch uses the
\* nextPageToken of the first report of the response just before it; no
\* fetch follows a response whose first report carries no token (or that
\* has no reports), so get returns after one fetch more than the leading
\* responses that carry a token, after exactly one when the first carries
\* none; and the run ends once the source sends a response without a token.
C6_CursorProtocol ==
    /\ [](/\ Len(cursors) = Len(fetched)
          /\ Len(cursors) >= 1 => cursors[1] = <<"0">>
          /\ \A k \in 2..Len(cursors) :
                 /\ CarriesToken(fetched[k - 1])
                 /\ cursors[k] = fetched[k - 1].reports[1].nextPageToken
          /\ pc = "done" =>
                 /\ Len(fetched) = LeadingTokens(fetched) + 1
                 /\ ~CarriesToken(fetched[1]) => Len(fetched) = 1)
    /\ <>(pc \in {"done", "failed"})

\* a run of three fetches, each later one with the token just received
C6_Witness ==
    /\ pc = "done"
    /\ cursors = << <<"0">>, <<"1", "0", "0", "0">>, <<"t", "k">> >>
    /\ ~CarriesToken(fetched[3])

\* the lists after passing every response of log to filter_batch in turn
RECURSIVE IngestAll(_, _, _)
IngestAll(log, p, c) ==
    IF log = <<>> THEN [paths |-> p, connections |-> c, raised |-> FALSE]
    ELSE Bind(filter_batch(Head(log), p, c),
              LAMBDA res :
                  IF res.raised THEN res
                  ELSE IngestAll(Tail(log), res.paths, res.connections))

\* the rows of a page that filter_batch has been through
Done(page, rest) ==
    SubSeq(AllRows(page.reports), 1,
           Len(AllRows(page.reports)) - Len(rest))

\* C9: fetches and ingests alternate: every fetched page, the first and the
\* last included, is passed whole to filter_batch exactly once, in fetch
\* order and before the next fetch; whenever get fetches or returns, its
\* lists are those of ingesting every fetched page once, whole, in that
\* order (a page on which filter_batch raises ends the run and is the last
\* one fetched).
C9_FetchIngestAlternate ==
    /\ pc = "ingest" => fetched = Append(ingested, response)
    /\ pc \in {"rows", "loop", "done", "failed"} => ingested = fetched
    /\ pc \in {"loop", "done", "failed"} =>
           LET all == IngestAll(ingested, <<>>, <<>>)
           IN  /\ paths = all.paths
               /\ connections = all.connections
               /\ all.raised <=> pc = "failed"
    /\ pc \in {"ingest", "rows"} =>
           LET before == IngestAll(SubSeq(fetched, 1, Len(fetched) - 1),
                                   <<>>, <<>>)
               part == IF pc = "ingest" THEN << >>
                       ELSE Done(response, pending)
               now == FilterRows(part, before.paths, before.connections)
           IN  /\ ~before.raised /\ ~now.raised
               /\ paths = now.paths
               /\ connections = now.connections

\* a run of three pages returned, the last page with rows of its own
C9_Witness ==
    /\ pc = "done"
    /\ Len(fetched) = 3
    /\ ingested = fetched
    /\ AllRows(fetched[3].reports) = <<RowShort, RowAC>>
    /\ AllRows(fetched[1].reports) = <<RowAB>>
    /\ Len(connections) >= 3

(***************************************************************************)
(* The words of the claims about rows, stated on the row itself.           *)
(***************************************************************************)
\* a raw path that starts with "http" or "/http"
InvalidRaw(s) ==
    \/ StartsWith(s, <<"h", "t", "t", "p">>)
    \/ StartsWith(s, <<"/", "h", "t", "t", "p">>)

\* a row that is to be skipped
SkippedRow(r) ==
    \/ Len(r.dimensions) < 3
    \/ InvalidRaw(r.dimensions[2])
    \/ InvalidRaw(r.dimensions[3])
    \/ filter_path(r.dimensions[2]) = filter_path(r.dimensions[3])

\* a row that is accepted
AcceptedRow(r) == ~SkippedRow(r)

NoDuplicates(lst) ==
    \A i, j \in 1..Len(lst) : lst[i] = lst[j] => i = j

\* a step that ingests one row
RowStep == nrows' = nrows + 1

\* C5: paths never holds a canonical path twice; an ingest step leaves the
\* paths it found in place as a prefix and adds, at the end, only canonical
\* paths of its row that were not there; and the indices of an appended
\* connection are the positions of the row's canonical paths in paths.
C5_IndexStable ==
    [][RowStep =>
         /\ NoDuplicates(paths')
         /\ Len(paths') >= Len(paths)
         /\ SubSeq(paths', 1, Len(paths)) = paths
         /\ \A k \in (Len(paths) + 1)..Len(paths') :
                /\ Len(row'.dimensions) >= 3
                /\ paths'[k] \in {filter_path(row'.dimensions[2]),
                                  filter_path(row'.dimensions[3])}
                /\ ~In(paths'[k], paths)
         /\ Len(connections') > Len(connections) =>
                LET conn == connections'[Len(connections')]
                IN  /\ conn[1] \in 0..(Len(paths') - 1)
                    /\ conn[2] \in 0..(Len(paths') - 1)
                    /\ paths'[conn[1] + 1] = filter_path(row'.dimensions[2])
                    /\ paths'[conn[2] + 1] = filter_path(row'.dimensions[3])
      ]_vars

\* the example of the claim: rows (/a/,/b/,5) then (/a/,/c/,2)
C5_Witness ==
    /\ paths = << <<"/", "a", "/">>, <<"/", "b", "/">>, <<"/", "c", "/">> >>
    /\ connections = << <<0, 1, 5>>, <<0, 2, 2>> >>

\* C7: ingesting a row that is to be skipped (fewer than 3 dimensions, an
\* invalid previous or current path, or equal canonical paths) raises no
\* error and leaves paths and connections as they were.
C7_SkippedRowChangesNothing ==
    [][(RowStep /\ SkippedRow(row')) =>
         /\ paths' = paths
         /\ connections' = connections
         /\ outcome' # "raised"
      ]_vars

\* a skipped row whose previous path is invalid and whose current path is
\* valid and new, ingested after paths were recorded
C7_Witness ==
    /\ outcome = "skipped"
    /\ paths # <<>>
    /\ Len(row.dimensions) = 3
    /\ InvalidRaw(row.dimensions[2])
    /\ ~InvalidRaw(row.dimensions[3])
    /\ ~In(filter_path(row.dimensions[3]), paths)
    /\ ~CountReturns(row.metrics)

C10_GraphConsistent ==
    /\ \A i \in 1..Len(connections) :
           /\ connections[i][1] \in 0..(Len(paths) - 1)
           /\ connections[i][2] \in 0..(Len(paths) - 1)
           /\ connections[i][1] # connections[i][2]
    /\ \A k \in 0..(Len(paths) - 1) :
           \E i \in 1..Len(connections) :
               connections[i][1] = k \/ connections[i][2] = k

\* C1: filter_path is idempotent on every raw path it does not reject,
\* whether or not the raw path starts with "/" or carries a "?" query:
\* filter_path(filter_path(p)) = filter_path(p).
C1_Idempotent ==
    nstage = "twice" => twice = once

\* C2: for every raw path filter_path does not reject, the canonical path
\* it returns starts with "/" and ends with "/".
C2_SlashBounded ==
    (nstage \in {"once", "twice"} /\ once # None) =>
        /\ StartsWith(once, <<"/">>)
        /\ EndsWith(once, <<"/">>)

=============================================================================
